---- MODULE Spec2Model ----
(***************************************************************************)
(* Model of models/rnnlm.py: RNNEncoder (forward, forward_step) and RNNLM  *)
(* (forward, forward_step).                                                *)
(*                                                                         *)
(* Tensors are functions: a batch index b ranges over 1..B, a time index   *)
(* t over 0..T-1 (the indices torch.arange produces), a vocabulary index   *)
(* v over 0..V-1.  Real numbers are exact fractions [e, n, d] standing for *)
(* n/d, or for exp(n/d) when e is TRUE; d = 0 is torch's inf/nan.          *)
(* The recurrent cell is the free (term) interpretation: a state is the    *)
(* sequence of inputs it has consumed, plus the count of transitions.      *)
(***************************************************************************)
EXTENDS Integers, Sequences, FiniteSets, TLC

VARIABLES self, pc, call, lm, sess, saved

vars == <<self, pc, call, lm, sess, saved>>

\* ---------------------------------------------------------------- bounds
MaxB == 2
MaxT == 4
MaxTrainT == 2
MaxLabLen == 1
MaxStepB == 1
MaxStepLen == 2
NLayers == 2

Tokens == 0..1
VocabSizes == {2, 3}

\* ------------------------------------------------------------ arithmetic
Abs(x) == IF x < 0 THEN -x ELSE x

RECURSIVE GCD(_, _)
GCD(a, b) == IF b = 0 THEN a ELSE GCD(b, a % b)

Sign(x) == IF x > 0 THEN 1 ELSE IF x < 0 THEN -1 ELSE 0

\* the fraction n/d in lowest terms; x/0 is inf (sign 1 or -1) or nan (0)
Frac(n, d) ==
    IF d = 0 THEN [e |-> FALSE, n |-> Sign(n), d |-> 0]
    ELSE LET g == GCD(Abs(n), Abs(d))
             s == IF d < 0 THEN -1 ELSE 1
         IN [e |-> FALSE, n |-> (s * n) \div g, d |-> (s * d) \div g]

Zero == Frac(0, 1)

AddFrac(x, y) == Frac(x.n * y.d + y.n * x.d, x.d * y.d)

DivInt(x, k) == Frac(x.n, x.d * k)

\* torch.exp: injective, so exp(x) is the fraction x tagged as exponentiated
Exp(x) == [x EXCEPT !.e = TRUE]

RECURSIVE SumOver(_, _)
SumOver(S, f) ==
    IF S = {} THEN 0
    ELSE LET x == CHOOSE y \in S : TRUE IN f[x] + SumOver(S \ {x}, f)

RECURSIVE SumFrac(_, _)
SumFrac(S, f) ==
    IF S = {} THEN Zero
    ELSE LET x == CHOOSE y \in S : TRUE IN AddFrac(f[x], SumFrac(S \ {x}, f))

Max(S) == CHOOSE x \in S : \A y \in S : y <= x

Size(f) == Cardinality(DOMAIN f)

\* ---------------------------------------------------------- padding mask
\* torch.max(seq_len)
TorchMax(seq_len) == Max({seq_len[b] : b \in DOMAIN seq_len})

\* torch.arange(0, end, 1)
Arange(end) == [i \in 0..(end - 1) |-> i]

PaddingFlipped(len, id) == id < len

\* one element of `seq_len.unsqueeze(1) < ids`
PaddingLt(len, id) == len < id

\* the mask of forward and forward_step, time-major: padding[t][b]
PaddingMask(seq_len) ==
    LET max_seq_len == TorchMax(seq_len)
        ids == Arange(max_seq_len)
        padding == [b \in DOMAIN seq_len |->
                       [i \in DOMAIN ids |-> PaddingLt(seq_len[b], ids[i])]]
    IN [t \in DOMAIN ids |-> [b \in DOMAIN seq_len |-> padding[b][t]]]

\* ------------------------------------------------------------- embedding
\* self.lookup_table(input) followed by transpose(0, 1): emb[t][b]
Lookup(obj, tok) == <<obj.params, tok>>

Embedding(obj, input, T) ==
    [t \in 0..(T - 1) |-> [b \in DOMAIN input |-> Lookup(obj, input[b][t])]]

\* ------------------------------------------------- stacked recurrent encoder
ZeroCell == [m |-> <<>>, c |-> 0]

ZeroState(B) == [k \in 1..NLayers |-> [b \in 1..B |-> ZeroCell]]

\* the cell's transition: one more input consumed
Cell(x, h) == [m |-> Append(h.m, x), c |-> h.c + 1]

\* select(mask, old, candidate)
Select(mask, old, cand) == IF mask THEN old ELSE cand

\* one timestep through all layers; layer k reads the output of layer k-1
StepLayers(x, mask, state) ==
    LET new[k \in 1..NLayers] ==
            LET inp == IF k = 1 THEN x
                       ELSE [b \in DOMAIN x |-> new[k - 1][b].m]
            IN [b \in DOMAIN x |->
                   Select(mask[b], state[k][b], Cell(inp[b], state[k][b]))]
    IN new

\* self.stacked_rnn(embedding, padding[, state]).  A mask whose number of
\* timesteps differs from the input's is either rejected, or indexed by the
\* input's timestep (and then a shorter mask runs out).
StackedRNN(obj, emb, padding, state0) ==
    LET T == Size(emb)
        M == Size(padding)
        status == IF M = T THEN "ok"
                  ELSE IF obj.stacked_rnn = "fail" THEN "ShapeMismatch"
                  ELSE IF M < T THEN "IndexError"
                  ELSE "ok"
        st[t \in 0..(T - 1)] ==
            StepLayers(emb[t], padding[t], IF t = 0 THEN state0 ELSE st[t - 1])
    IN IF status # "ok" THEN [status |-> status, o |-> <<>>, trace |-> <<>>, s |-> <<>>]
       ELSE [status |-> "ok",
             o |-> [t \in 0..(T - 1) |-> [b \in DOMAIN emb[0] |-> st[t][NLayers][b].m]],
             trace |-> st,
             s |-> IF T = 0 THEN state0 ELSE st[T - 1]]

\* ------------------------------------------------- projection, log-softmax
\* exp of the logit of class v for hidden output h (a positive weight)
OutWeight(obj, h, v) == 1 + ((Len(h) + v + obj.params) % 3)

\* self.out(o) followed by transpose(0, 1): x[b][t][v]
Project(obj, o) ==
    [b \in DOMAIN o[0] |-> [t \in DOMAIN o |->
        [v \in 0..(obj.vocab_size - 1) |-> OutWeight(obj, o[t][b], v)]]]

\* the sum of x along axis dim (0 batch, 1 time, 2 vocabulary) through (b,t,v)
AxisSum(x, dim, b, t, v) ==
    IF dim = 0 THEN SumOver(DOMAIN x, [bb \in DOMAIN x |-> x[bb][t][v]])
    ELSE IF dim = 1 THEN SumOver(DOMAIN x[b], [tt \in DOMAIN x[b] |-> x[b][tt][v]])
    ELSE SumOver(DOMAIN x[b][t], [vv \in DOMAIN x[b][t] |-> x[b][t][vv]])

\* log_softmax along dim, kept in probability space as exact fractions
Softmax(x, dim) ==
    [b \in DOMAIN x |-> [t \in DOMAIN x[b] |-> [v \in DOMAIN x[b][t] |->
        Frac(x[b][t][v], AxisSum(x, dim, b, t, v))]]]

\* nn.LogSoftmax(dim=vocab_size) called on a 3-d tensor; forward() takes the
\* input only, and the dim given at construction must be one of -3..2
TorchLogSoftmax(obj, x, kwDim) ==
    IF kwDim THEN [status |-> "TypeError", log_probs |-> <<>>]
    ELSE IF obj.vocab_size > 2 THEN [status |-> "IndexError", log_probs |-> <<>>]
    ELSE [status |-> "ok", log_probs |-> Softmax(x, obj.vocab_size)]

\* AdaptiveLogSoftmax: the dense distribution over the vocabulary
AdaptiveLogSoftmax(obj, x) ==
    [status |-> "ok", log_probs |-> Softmax(x, 2)]

\* self.log_softmax(o, dim=2) in forward, self.log_softmax(o) in forward_step
LogSoftmaxCall(obj, o, kwDim) ==
    IF obj.adaptive_softmax THEN AdaptiveLogSoftmax(obj, Project(obj, o))
    ELSE TorchLogSoftmax(obj, Project(obj, o), kwDim)

Failed(status, padding, steps) ==
    [status |-> status, log_probs |-> <<>>, padding |-> padding, steps |-> steps,
     trace |-> <<>>, s |-> <<>>]

\* RNNEncoder.forward
EncoderForward(obj, input, T, seq_len) ==
    LET embeddding == Embedding(obj, input, T)
        padding == PaddingMask(seq_len)
        output == StackedRNN(obj, embeddding, padding, ZeroState(Size(input)))
        lsm == LogSoftmaxCall(obj, output.o, TRUE)
    IN IF output.status # "ok" THEN Failed(output.status, padding, T)
       ELSE IF lsm.status # "ok"
            THEN [Failed(lsm.status, padding, T) EXCEPT !.trace = output.trace]
       ELSE [status |-> "ok", log_probs |-> lsm.log_probs, padding |-> padding,
             steps |-> T, trace |-> output.trace, s |-> output.s]

\* the (state_m, state_c) pair of a stacked state and back
StateM(s) == [k \in DOMAIN s |-> [b \in DOMAIN s[k] |-> s[k][b].m]]
StateC(s) == [k \in DOMAIN s |-> [b \in DOMAIN s[k] |-> s[k][b].c]]
JoinState(state_m, state_c) ==
    [k \in DOMAIN state_m |-> [b \in DOMAIN state_m[k] |->
        [m |-> state_m[k][b], c |-> state_c[k][b]]]]

\* RNNEncoder.forward_step; input is [B, 1]
EncoderForwardStep(obj, input, seq_len, state_m, state_c) ==
    LET embeddding == Embedding(obj, input, 1)
        padding == PaddingMask(seq_len)
        output == StackedRNN(obj, embeddding, padding, JoinState(state_m, state_c))
        lsm == LogSoftmaxCall(obj, output.o, FALSE)
    IN IF output.status # "ok" THEN Failed(output.status, padding, 1)
       ELSE IF lsm.status # "ok"
            THEN [Failed(lsm.status, padding, 1) EXCEPT !.trace = output.trace]
       ELSE [status |-> "ok", log_probs |-> lsm.log_probs, padding |-> padding,
             steps |-> 1, trace |-> output.trace, s |-> output.s]

\* RNNLM.forward_step: (o, s[0], s[1])
ForwardStepResult(obj, input, seq_len, state_m, state_c) ==
    LET r == EncoderForwardStep(obj, input, seq_len, state_m, state_c)
    IN [status |-> r.status, o |-> r.log_probs,
        m |-> IF r.status = "ok" THEN StateM(r.s) ELSE <<>>,
        c |-> IF r.status = "ok" THEN StateC(r.s) ELSE <<>>]

SelfAfterStepBumped(obj, s) == [obj EXCEPT !.params = 1 - @]

\* the fields of the module objects after forward_step: nothing is assigned
SelfAfterStep(obj, s) == obj

\* --------------------------------------------------------------- inputs
InputOf(seed, B, T) ==
    [b \in 1..B |-> [t \in 0..(T - 1) |-> (seed + b + t) % 2]]

\* states a caller may hold: the zero state, or the state after one token
PriorStates(obj, B) ==
    {ZeroState(B)} \cup
    {StepLayers([b \in 1..B |-> Lookup(obj, 0)], [b \in 1..B |-> FALSE], ZeroState(B))}

Configs(adaptive, vocab, lnl, rnn, crit) ==
    [adaptive_softmax : adaptive, vocab_size : vocab, length_normalized_loss : lnl,
     stacked_rnn : rnn, criterion : crit, params : {0}]

NoCall == [op |-> "none", input |-> <<>>, T |-> 0, seq_len |-> <<>>,
           state_m |-> <<>>, state_c |-> <<>>, res |-> Failed("none", <<>>, 0),
           step |-> [status |-> "none", o |-> <<>>, m |-> <<>>, c |-> <<>>]]

NoLM == [op |-> "none"]
NoSess == [op |-> "none"]
NoSaved == [op |-> "none"]

\* ------------------------------------------------ encoder calls (Spec)
Init ==
    /\ self \in Configs(BOOLEAN, VocabSizes, {FALSE}, {"fail", "index"}, {"seq"})
    /\ pc = "idle"
    /\ call = NoCall
    /\ lm = NoLM
    /\ sess = NoSess
    /\ saved = NoSaved

Forward ==
    /\ pc = "idle"
    /\ \E B \in 1..MaxB, T \in 1..MaxT, seed \in Tokens :
         \E seq_len \in [1..B -> 1..T] :
            call' = [NoCall EXCEPT !.op = "forward", !.input = InputOf(seed, B, T),
                        !.T = T, !.seq_len = seq_len,
                        !.res = EncoderForward(self, InputOf(seed, B, T), T, seq_len)]
    /\ pc' = "returned"
    /\ UNCHANGED <<self, lm, sess, saved>>

ForwardStep ==
    /\ pc = "idle"
    /\ \E B \in 1..MaxB, seed \in Tokens :
         \E seq_len \in [1..B -> 1..MaxT], prior \in PriorStates(self, B) :
            LET input == InputOf(seed, B, 1)
                r == EncoderForwardStep(self, input, seq_len, StateM(prior), StateC(prior))
            IN /\ call' = [NoCall EXCEPT !.op = "forward_step", !.input = input,
                              !.T = 1, !.seq_len = seq_len,
                              !.state_m = StateM(prior), !.state_c = StateC(prior),
                              !.res = r,
                              !.step = ForwardStepResult(self, input, seq_len,
                                                         StateM(prior), StateC(prior))]
               /\ self' = SelfAfterStep(self, r.s)
    /\ pc' = "returned"
    /\ UNCHANGED <<lm, sess, saved>>

\* the call returns; the batch, the mask and the results are the caller's
Return ==
    /\ pc = "returned"
    /\ pc' = "idle"
    /\ call' = NoCall
    /\ UNCHANGED <<self, lm, sess, saved>>

Next == Forward \/ ForwardStep \/ Return

Spec == Init /\ [][Next]_vars

\* ------------------------------------------------------- encoder claims
EncoderCalled == call.op \in {"forward", "forward_step"}

Batch == DOMAIN call.seq_len

\* C1: the mask of forward and forward_step is true exactly at the positions
\* t >= l of a sequence of valid length l; position t = l is masked.
C1_MaskFromLength ==
    EncoderCalled =>
        \A t \in DOMAIN call.res.padding : \A b \in Batch :
            call.res.padding[t][b] = (t >= call.seq_len[b])

\* C2: in forward, a sequence of valid length l < T receives exactly l
\* transitions at every layer; from position l on its state is the state
\* after position l-1.
C2_ExactlyLTransitions ==
    (call.op = "forward" /\ call.res.trace # <<>>) =>
        \A b \in Batch : call.seq_len[b] < call.T =>
            \A k \in 1..NLayers :
                /\ call.res.trace[call.T - 1][k][b].c = call.seq_len[b]
                /\ \A t \in call.seq_len[b]..(call.T - 1) :
                      call.res.trace[t][k][b] = call.res.trace[call.seq_len[b] - 1][k][b]

RowsSumToOne(lp) ==
    \A b \in DOMAIN lp : \A t \in DOMAIN lp[b] :
        SumFrac(DOMAIN lp[b][t], lp[b][t]) = Frac(1, 1)

HasShape(lp, B, T, V) ==
    /\ DOMAIN lp = 1..B
    /\ \A b \in 1..B :
          /\ DOMAIN lp[b] = 0..(T - 1)
          /\ \A t \in 0..(T - 1) : DOMAIN lp[b][t] = 0..(V - 1)

\* C7: without adaptive softmax, forward and forward_step succeed on every
\* well-shaped input (one whose mask has the input's timesteps) and return
\* [batch, time, vocab_size] log-probabilities whose rows sum to 1.
C7_PlainSoftmaxNormalized ==
    (EncoderCalled /\ ~self.adaptive_softmax
        /\ Size(call.res.padding) = call.res.steps) =>
            /\ call.res.status = "ok"
            /\ HasShape(call.res.log_probs, Size(call.input), call.T, self.vocab_size)
            /\ RowsSumToOne(call.res.log_probs)

\* C8: the mask is monotonic per sequence: once true at t, true at every
\* later position t'.
C8_MaskMonotonic ==
    EncoderCalled =>
        \A b \in Batch : \A t, u \in DOMAIN call.res.padding :
            (t < u /\ call.res.padding[t][b]) => call.res.padding[u][b]

C8_Witness ==
    /\ EncoderCalled
    /\ \E b \in Batch : \E t, u \in DOMAIN call.res.padding :
          /\ t < u
          /\ ~call.res.padding[0][b]
          /\ call.res.padding[t][b]
          /\ call.res.padding[u][b]

\* C9: the mask handed to the stacked encoder has as many timesteps as the
\* embedded input: T in forward, one in forward_step.
C9_MaskTimesteps ==
    EncoderCalled => Size(call.res.padding) = call.res.steps

\* ------------------------------------------------- label-smoothing loss
IgnoreId == -1

\* cross-entropy of one position in integer units: 0 when the target has
\* probability 1, larger the less probable the target
Cost(row, y) == row[y].d - row[y].n

Valid(labels, b) == {t \in DOMAIN labels[b] : labels[b][t] # IgnoreId}

SeqCost(log_probs, labels, b) ==
    SumOver(Valid(labels, b),
            [t \in Valid(labels, b) |-> Cost(log_probs[b][t], labels[b][t])])

\* self.criterion(logit, labels): (loss, each_seq_loss_in_batch)
Criterion(obj, log_probs, labels) ==
    LET B == DOMAIN labels
        n == [b \in B |-> Cardinality(Valid(labels, b))]
        N == SumOver(B, n)
        S == [b \in B |-> SeqCost(log_probs, labels, b)]
        each == [b \in B |->
                    IF ~obj.length_normalized_loss THEN Frac(S[b], 1)
                    ELSE IF n[b] = 0 THEN Zero
                    ELSE Frac(S[b], n[b])]
        loss == IF ~obj.length_normalized_loss THEN SumFrac(B, each)
                ELSE IF N = 0 THEN Zero
                ELSE IF obj.criterion = "seq" THEN DivInt(SumFrac(B, each), N)
                ELSE Frac(SumOver(B, S), N)
    IN [loss |-> loss, each |-> each]

\* ------------------------------------------------------------ RNNLM.forward
SameBatchFirstThree(a, b, c, d) == a = b /\ b = c

\* input.shape[0] == input_length.shape[0] == labels.shape[0] == labels_length.shape[0]
SameBatch(a, b, c, d) == a = b /\ b = c /\ c = d

TotalPplNoMode(obj, loss, size0, labels_length) ==
    Frac(loss.n * size0, loss.d * SumOver(DOMAIN labels_length, labels_length))

\* loss.exp() if length_normalized_loss else loss * input.size(0) / labels_length.sum()
TotalPpl(obj, loss, size0, labels_length) ==
    IF obj.length_normalized_loss THEN Exp(loss)
    ELSE Frac(loss.n * size0, loss.d * SumOver(DOMAIN labels_length, labels_length))

PplNoExp(each) == each

\* each_seq_loss_in_batch.exp()
Ppl(each) == [b \in DOMAIN each |-> Exp(each[b])]

NoResult(status, invoked) ==
    [status |-> status, invoked |-> invoked, loss |-> Zero, each |-> <<>>,
     ppl |-> <<>>, total_ppl |-> Zero]

TrainForward(obj, input, T, input_length, labels, labels_length) ==
    IF ~SameBatch(Size(input), Size(input_length), Size(labels), Size(labels_length))
    THEN NoResult("AssertionError", <<>>)
    ELSE LET logit == EncoderForward(obj, input, T, input_length)
             crit == Criterion(obj, logit.log_probs, labels)
         IN IF logit.status # "ok" THEN NoResult(logit.status, <<"model">>)
            ELSE [status |-> "ok", invoked |-> <<"model", "criterion">>,
                  loss |-> crit.loss, each |-> crit.each, ppl |-> Ppl(crit.each),
                  total_ppl |-> TotalPpl(obj, crit.loss, Size(input), labels_length)]

\* ------------------------------------------------------ training inputs
\* valid lengths: the first sequence has length h, the others length l
InputLengths(B, T) == {[b \in 1..B |-> IF b = 1 THEN h ELSE l] : h, l \in 1..T}

\* labels of sequence b: the first count(b) positions carry a target, the
\* rest the ignore id
LabelsOf(B, T, seed, count) ==
    [b \in 1..B |-> [t \in 0..(T - 1) |->
        IF t < count[b] THEN (seed + b + t + 1) % 2 ELSE IgnoreId]]

LabelCounts(B, T, input_length) ==
    {[b \in 1..B |-> IF b \in DOMAIN input_length THEN input_length[b] - shift ELSE T] :
        shift \in 0..1}
    \cup {[b \in 1..B |-> 0]}

InitLM ==
    /\ self \in Configs(BOOLEAN, {3}, BOOLEAN, {"fail", "index"}, {"seq", "tok"})
    /\ pc = "idle"
    /\ call = NoCall
    /\ lm = NoLM
    /\ sess = NoSess
    /\ saved = NoSaved

LMCall(input, T, input_length, labels, labels_length, other) ==
    [op |-> "forward",
     sizes |-> <<Size(input), Size(input_length), Size(labels), Size(labels_length)>>,
     input |-> input, input_length |-> input_length,
     labels |-> labels, labels_length |-> labels_length,
     res |-> TrainForward(self, input, T, input_length, labels, labels_length),
     other_length |-> other,
     other |-> TrainForward(self, input, T, input_length, labels, other)]

\* RNNLM.forward on a batch, and on the same batch with a different
\* labels_length.  Arguments whose batch sizes pass the validation take every
\* content; the others are told apart by their sizes only.
LMForward ==
    /\ pc = "idle"
    /\ \E bIn, bLen, bLab, bLL \in 1..MaxB :
         IF SameBatch(bIn, bLen, bLab, bLL)
         THEN \E T \in 1..MaxTrainT :
              \E input_length \in InputLengths(bLen, T),
                 labels_length \in [1..bLL -> 0..MaxLabLen], i \in 1..bLL :
              \E count \in LabelCounts(bLab, T, input_length) :
                 lm' = LMCall(InputOf(0, bIn, T), T, input_length,
                              LabelsOf(bLab, T, 0, count), labels_length,
                              [labels_length EXCEPT ![i] = @ + 1])
         ELSE lm' = LMCall(InputOf(0, bIn, 1), 1, [b \in 1..bLen |-> 1],
                           LabelsOf(bLab, 1, 0, [b \in 1..bLab |-> 1]),
                           [b \in 1..bLL |-> 1], [b \in 1..bLL |-> 2])
    /\ pc' = "returned"
    /\ UNCHANGED <<self, call, sess, saved>>

LMReturn ==
    /\ pc = "returned"
    /\ pc' = "idle"
    /\ lm' = NoLM
    /\ UNCHANGED <<self, call, sess, saved>>

NextLM == LMForward \/ LMReturn

SpecLM == InitLM /\ [][NextLM]_vars

\* --------------------------------------------------------- RNNLM claims
LMCalled == lm.op = "forward"

SizesEqual == \A i, j \in 1..4 : lm.sizes[i] = lm.sizes[j]

\* C4: RNNLM.forward fails before the encoder and the loss are invoked when
\* the four batch sizes are not all equal, and the validation passes when
\* they are.
C4_BatchValidation ==
    LMCalled =>
        /\ ~SizesEqual => (lm.res.status = "AssertionError" /\ lm.res.invoked = <<>>)
        /\ SizesEqual => lm.res.status # "AssertionError"

C4_Witness ==
    /\ LMCalled
    /\ lm.sizes[1] = lm.sizes[2]
    /\ lm.sizes[2] = lm.sizes[3]
    /\ lm.sizes[3] # lm.sizes[4]
    /\ lm.res.status = "AssertionError"

MeanOf(each) == DivInt(SumFrac(DOMAIN each, each), Size(each))

Normalized == LMCalled /\ self.length_normalized_loss /\ lm.res.status = "ok"

\* C6 as stated: in length-normalized mode batch_perplexity is exp(mean of
\* the per-sequence losses) and each per-sequence perplexity is exp(its loss).
C6_PplOfMeanSeqLoss ==
    Normalized =>
        /\ lm.res.total_ppl = Exp(MeanOf(lm.res.each))
        /\ \A b \in DOMAIN lm.res.each : lm.res.ppl[b] = Exp(lm.res.each[b])

\* C6 as amended: in length-normalized mode batch_perplexity is exp(the scalar
\* loss the loss module returns) and each per-sequence perplexity is exp(that
\* sequence's loss).
C6_PplOfScalarLoss ==
    Normalized =>
        /\ lm.res.total_ppl = Exp(lm.res.loss)
        /\ DOMAIN lm.res.ppl = DOMAIN lm.res.each
        /\ \A b \in DOMAIN lm.res.each : lm.res.ppl[b] = Exp(lm.res.each[b])

C6_Witness ==
    /\ Normalized
    /\ lm.res.loss # Zero
    /\ lm.res.loss # MeanOf(lm.res.each)
    /\ lm.res.total_ppl = Exp(lm.res.loss)

ValidLabels == SumOver(DOMAIN lm.labels, [b \in DOMAIN lm.labels |-> Cardinality(Valid(lm.labels, b))])

\* C10: two calls that differ only in the values of labels_length end alike
\* and return the same loss and per-sequence perplexities, and the same batch
\* perplexity in length-normalized mode; labels_length is not compared with
\* the number of non-ignored labels.
C10_LabelsLengthOnlyInPlainPpl ==
    (LMCalled /\ SizesEqual) =>
        /\ lm.other.status = lm.res.status
        /\ lm.other.loss = lm.res.loss
        /\ lm.other.ppl = lm.res.ppl
        /\ self.length_normalized_loss => lm.other.total_ppl = lm.res.total_ppl

C10_Witness ==
    /\ LMCalled
    /\ lm.res.status = "ok"
    /\ lm.other_length # lm.labels_length
    /\ SumOver(DOMAIN lm.labels_length, lm.labels_length) # ValidLabels
    /\ lm.res.loss # Zero
    /\ lm.other.loss = lm.res.loss
    /\ lm.other.total_ppl # lm.res.total_ppl

\* ------------------------------------- incremental decoding (SpecDecode)
\* column t of a [B, T] batch as a [B, 1] input
Column(input, t) == [b \in DOMAIN input |-> [u \in {0} |-> input[b][t]]]

InitDecode ==
    /\ self \in Configs(BOOLEAN, VocabSizes, {FALSE}, {"fail", "index"}, {"seq"})
    /\ pc = "idle"
    /\ call = NoCall
    /\ lm = NoLM
    /\ sess = NoSess
    /\ saved = NoSaved

\* a caller takes a batch and the zero state
DecodeStart ==
    /\ pc = "idle"
    /\ \E B \in 1..MaxB, T \in 1..MaxT, seed \in Tokens :
         \E lengths \in [1..B -> 1..T] :
            sess' = [op |-> "steps", input |-> InputOf(seed, B, T), T |-> T,
                     lengths |-> lengths, k |-> 0,
                     state_m |-> StateM(ZeroState(B)), state_c |-> StateC(ZeroState(B)),
                     status |-> "ok", outs |-> <<>>,
                     fwd |-> [status |-> "none", log_probs |-> <<>>]]
    /\ pc' = "decoding"
    /\ UNCHANGED <<self, call, lm, saved>>

\* one forward_step call on the next token; the returned state is threaded
DecodeStep ==
    /\ pc = "decoding"
    /\ sess.op = "steps"
    /\ sess.status = "ok"
    /\ sess.k < sess.T
    /\ LET r == ForwardStepResult(self, Column(sess.input, sess.k), sess.lengths,
                                  sess.state_m, sess.state_c)
       IN /\ sess' = IF r.status = "ok"
                     THEN [sess EXCEPT !.k = @ + 1, !.state_m = r.m, !.state_c = r.c,
                                       !.outs = Append(@, r.o)]
                     ELSE [sess EXCEPT !.status = r.status]
          /\ self' = SelfAfterStep(self, JoinState(r.m, r.c))
    /\ UNCHANGED <<pc, call, lm, saved>>

\* one forward call over the same tokens and lengths
DecodeBatch ==
    /\ pc = "decoding"
    /\ sess.op = "steps"
    /\ sess.status # "ok" \/ sess.k = sess.T
    /\ LET r == EncoderForward(self, sess.input, sess.T, sess.lengths)
       IN sess' = [sess EXCEPT !.op = "done",
                               !.fwd = [status |-> r.status, log_probs |-> r.log_probs]]
    /\ UNCHANGED <<self, pc, call, lm, saved>>

DecodeReturn ==
    /\ pc = "decoding"
    /\ sess.op = "done"
    /\ pc' = "idle"
    /\ sess' = NoSess
    /\ UNCHANGED <<self, call, lm, saved>>

NextDecode == DecodeStart \/ DecodeStep \/ DecodeBatch \/ DecodeReturn

SpecDecode == InitDecode /\ [][NextDecode]_vars

\* the per-position log-probabilities the steps returned, as [b][t][v]
StepLogProbs ==
    [b \in DOMAIN sess.input |-> [t \in 0..(Len(sess.outs) - 1) |-> sess.outs[t + 1][b][0]]]

\* C3: T forward_step calls threading the state from the zero state yield
\* the per-position log-probabilities of one forward call over the same
\* tokens and lengths.
C3_StepsEqualForward ==
    sess.op = "done" =>
        /\ sess.status = sess.fwd.status
        /\ StepLogProbs = sess.fwd.log_probs

\* -------------------------------------- repeated forward_step (SpecStep)
InitStep ==
    /\ self \in Configs(BOOLEAN, VocabSizes, {FALSE}, {"fail", "index"}, {"seq"})
    /\ pc = "idle"
    /\ call = NoCall
    /\ lm = NoLM
    /\ sess = NoSess
    /\ saved = NoSaved

\* states the caller holds: those of PriorStates and the one the first call returned
HeldStates(B) ==
    PriorStates(self, B) \cup
    (IF saved.op = "kept" /\ saved.step.status = "ok" /\ Size(saved.input) = B
     THEN {JoinState(saved.step.m, saved.step.c)} ELSE {})

\* RNNLM.forward_step; the first call of a run is kept for comparison
StepCall ==
    /\ pc = "idle"
    /\ \E B \in 1..MaxStepB, seed \in Tokens :
         \E seq_len \in [1..B -> 1..MaxStepLen], prior \in HeldStates(B) :
            LET input == InputOf(seed, B, 1)
                r == EncoderForwardStep(self, input, seq_len, StateM(prior), StateC(prior))
                this == [NoCall EXCEPT !.op = "forward_step", !.input = input,
                            !.T = 1, !.seq_len = seq_len,
                            !.state_m = StateM(prior), !.state_c = StateC(prior),
                            !.res = r,
                            !.step = ForwardStepResult(self, input, seq_len,
                                                       StateM(prior), StateC(prior))]
            IN /\ call' = this
               /\ self' = SelfAfterStep(self, r.s)
               /\ saved' = IF saved.op = "none"
                           THEN [op |-> "kept", self |-> self, input |-> input,
                                 seq_len |-> seq_len, state_m |-> StateM(prior),
                                 state_c |-> StateC(prior), step |-> this.step,
                                 later |-> 0]
                           ELSE [saved EXCEPT !.later = IF @ < 2 THEN @ + 1 ELSE @]
    /\ pc' = "returned"
    /\ UNCHANGED <<lm, sess>>

StepReturn ==
    /\ pc = "returned"
    /\ pc' = "idle"
    /\ call' = NoCall
    /\ UNCHANGED <<self, lm, sess, saved>>

NextStep == StepCall \/ StepReturn

SpecStep == InitStep /\ [][NextStep]_vars

SameArguments ==
    /\ call.input = saved.input
    /\ call.seq_len = saved.seq_len
    /\ call.state_m = saved.state_m
    /\ call.state_c = saved.state_c

====
